---- MODULE Spec2Model ----
(***************************************************************************)
(* BreezeReader: the pacing controller of src/components/RSVPReader.tsx    *)
(* (a React function component) as a state machine.                        *)
(*                                                                         *)
(* The component's state is its useState cells (wordIndex, isPlaying,      *)
(* showContext, startTime), the timerRef ref, the browser's set of pending *)
(* setTimeout timers, and the settings prop owned by App.  One action is   *)
(* one event handler (or one timer callback) together with the render and  *)
(* the effects React runs for the state it changed: the cleanup of the     *)
(* playback effect, its body, the re-render caused by setStartTime inside  *)
(* the effect, and the onPositionChange effect.  React commits the state   *)
(* updates of a handler and runs the effects before the next macrotask     *)
(* (timer callback or DOM event) is taken, so each handler is atomic.      *)
(*                                                                         *)
(* Time is in milliseconds.  Events handed to the host (onPositionChange,  *)
(* onSessionEnd) are recorded in the history variable `emitted`.           *)
(***************************************************************************)
EXTENDS Integers, Sequences, FiniteSets, TLC

VARIABLES
  words,        \* the token sequence (useMemo over text), a sequence of tokens
  wordIndex,    \* useState(initialPosition)
  isPlaying,    \* useState(false)
  showContext,  \* useState(false)
  startTime,    \* useState<number|null>(null); NoTime stands for null
  settings,     \* the settings prop: [wpm, mode, chunkSize]
  timers,       \* the browser's pending setTimeout timers (records)
  timerRef,     \* timerRef.current: id of the last timer set, NoTimer for null
  now,          \* Date.now()
  lastCmd,      \* history: the command the last handler carried out (see Commands)
  emitted,      \* history: the events the last handler handed to the host, in order
  nTicks,       \* history: timer callbacks counted by CountedTick
  runEnds,      \* history: onSessionEnd calls since the last "play" command (up to 2)
  ctxFrom,      \* history: how the context view was entered (see EnterKind)
  pausedMid,    \* history: the last pause cancelled a timer that had run for a while
  view,         \* App: the view shown, "reader" or "vocab"
  definition,   \* RSVPReader: a looked-up definition is showing (definition !== null)
  vocab,        \* App: the vocabulary of the active library item, newest first
  reviewQueue,  \* VocabularyView: the memoised review queue
  reviewMode,   \* VocabularyView: useState(false)
  currentCardIndex, \* VocabularyView: useState(0)
  isFlipped,    \* VocabularyView: useState(false)
  crashed,      \* the render threw and React unmounted the application
  graded,       \* history: the last call of handleReview, <<>> before the first
  nWaits,       \* history: the number of VocabElapse steps taken
  text,         \* the text prop of the reader (App: inputText before it is added)
  boldRatio,    \* settings.boldRatio, as a fraction [num, den]
  sessionQueue, \* history: the ids of the review queue when review mode was entered
  sessionGraded \* history: the ids graded since review mode was entered, in order

\* the pacing controller's part of the state, the clock apart
readerVars == <<words, wordIndex, isPlaying, showContext, startTime, settings,
                timers, timerRef, lastCmd, emitted, nTicks, runEnds, ctxFrom,
                pausedMid, text, boldRatio>>

\* the vocabulary's part of the state
vocabVars == <<view, definition, vocab, reviewQueue, reviewMode, currentCardIndex,
               isFlipped, crashed, graded, nWaits, sessionQueue, sessionGraded>>

vars == <<words, wordIndex, isPlaying, showContext, startTime, settings, timers,
          timerRef, now, lastCmd, emitted, nTicks, runEnds, ctxFrom, pausedMid,
          view, definition, vocab, reviewQueue, reviewMode, currentCardIndex,
          isFlipped, crashed, graded, nWaits, text, boldRatio, sessionQueue,
          sessionGraded>>

----------------------------------------------------------------------------
(* Bounds of the model *)

MaxTokens == 3          \* short texts have 0..MaxTokens tokens
LongTokens == 12        \* one long text, so that +/-10 seeks need not clamp
MaxChunk == 2           \* chunkSize ranges over 1..MaxChunk
StartClock == 1000      \* Date.now() when playback first starts
Horizon == 300          \* the clock is followed for Horizon ms after StartClock
RunTokens == 6          \* uninterrupted runs are over texts of 1..RunTokens tokens
RunHorizon == 900       \* and are followed for RunHorizon ms

\* granularity of time passing other than up to the moment a timer is due
Quantum == 2 * 25

NoTime == 0             \* startTime === null
NoTimer == 0            \* timerRef.current === null

MaxNow == StartClock + Horizon

WpmValues == {300, 600}
Modes == {"rsvp-single", "rsvp-chunk"}
ChunkSizes == 1..MaxChunk
TokenCounts == (0..MaxTokens) \cup {LongTokens}

Min(a, b) == IF a <= b THEN a ELSE b
Max(a, b) == IF a >= b THEN a ELSE b

----------------------------------------------------------------------------
(* The text: tokens are sequences of characters.  Token i of the text is   *)
(* fixed by i, so every text is a prefix of one endless text that mixes    *)
(* plain, sentence-ending, clause-ending and long tokens.                  *)

Word(i) ==
  CASE i % 4 = 1 -> <<"T", "h", "e">>
    [] i % 4 = 2 -> <<"e", "n", "d", ".">>
    [] i % 4 = 3 -> <<"n", "o", "w", ",">>
    [] OTHER     -> <<"e","x","t","r","a","o","r","d","i","n","a","r","y">>

Text(n) == [i \in 1..n |-> Word(i)]

\* words[wordIndex] || ""  (JavaScript indexes from 0, out of range is undefined)
WordAt(ws, i) == IF i >= 0 /\ i < Len(ws) THEN ws[i + 1] ELSE <<>>

\* currentWord.match(/[.!?]$/), currentWord.match(/[,;:]$/)
EndsWith(w, chars) == Len(w) > 0 /\ w[Len(w)] \in chars

\* a text that has the tokens ws: the tokens with one space between them
RECURSIVE Join(_)
Join(ws) ==
  IF ws = <<>> THEN <<>>
  ELSE IF Len(ws) = 1 THEN ws[1]
  ELSE ws[1] \o <<" ">> \o Join(Tail(ws))

\* the default settings of App: boldRatio 0.5
DefaultBoldRatio == [num |-> 1, den |-> 2]

----------------------------------------------------------------------------
(* The React state of one render, as a record *)

Cur == [wordIndex |-> wordIndex, isPlaying |-> isPlaying,
        showContext |-> showContext, startTime |-> startTime,
        settings |-> settings]

\* variant: the punctuation multiplier and the length multiplier are both applied
MultiplierCombined10(w) ==
  ((IF EndsWith(w, {".", "!", "?"}) THEN 20
    ELSE IF EndsWith(w, {",", ";", ":"}) THEN 15
    ELSE 10) * (IF Len(w) > 10 THEN 12 ELSE 10)) \div 10

\* getDelay(): ten times the multiplier, so that it stays an integer
Multiplier10(w) ==
  IF EndsWith(w, {".", "!", "?"}) THEN 20
  ELSE IF EndsWith(w, {",", ";", ":"}) THEN 15
  ELSE IF Len(w) > 10 THEN 12
  ELSE 10

\* getDelay(): (60 / wpm) * 1000 * (chunkSize in chunk mode, else 1) * multiplier
getDelay(r, ws) ==
  LET chunk == IF r.settings.mode = "rsvp-chunk" THEN r.settings.chunkSize ELSE 1
  IN (60 * 1000 * chunk * Multiplier10(WordAt(ws, r.wordIndex))) \div (r.settings.wpm * 10)

\* variant: a step that ignores the chunk size
StepOne(s) == 1

\* the step playNext advances by
Step(s) == IF s.mode = "rsvp-chunk" THEN s.chunkSize ELSE 1

\* variant: a dependency list that leaves out isPlaying and showContext
PlaybackDepsNoFlags(r) ==
  <<r.wordIndex, r.settings.wpm, r.settings.chunkSize, r.settings.mode, r.startTime>>

\* variant: a dependency list that leaves out wordIndex
PlaybackDepsNoIndex(r) ==
  <<r.isPlaying, r.showContext, r.settings.wpm, r.settings.chunkSize,
    r.settings.mode, r.startTime>>

\* the dependency list of the playback effect: isPlaying, showContext, wordIndex,
\* getDelay (wpm, chunkSize, mode, wordIndex, words) and playNext (words.length,
\* mode, chunkSize, startTime, onSessionEnd, wpm); words and onSessionEnd are fixed
PlaybackDeps(r) ==
  <<r.isPlaying, r.showContext, r.wordIndex, r.settings.wpm, r.settings.chunkSize,
    r.settings.mode, r.startTime>>

----------------------------------------------------------------------------
(* Timers *)

\* window.setTimeout returns an id that no pending timer has
FreshId(ts, ref) ==
  CHOOSE i \in 1..(Cardinality(ts) + 2) :
    /\ i \notin ({t.id : t \in ts} \cup {ref})
    /\ \A j \in 1..(i - 1) : j \in ({t.id : t \in ts} \cup {ref})

\* clearTimeout(id)
ClearTimeout(ts, id) == {t \in ts : t.id # id}

\* variant: an effect that returns no cleanup
CleanupNone(ts, ref) == ts

\* the cleanup of the playback effect: if (timerRef.current) clearTimeout(...)
Cleanup(ts, ref) == IF ref # NoTimer THEN ClearTimeout(ts, ref) ELSE ts

\* variant: the delay is counted from the first start of playback instead of from
\* the moment the timer is set
NewTimerFromStart(id, r, ws, t) ==
  [id |-> id, setAt |-> IF r.startTime # NoTime THEN r.startTime ELSE t,
   delay |-> getDelay(r, ws), at |-> r.wordIndex,
   step |-> Step(r.settings), len |-> Len(ws), startTime |-> r.startTime,
   wpm |-> r.settings.wpm]

\* the timer set by the playback effect of render r at time t: the callback is the
\* playNext of that render, which closes over step, words.length, startTime and wpm
NewTimer(id, r, ws, t) ==
  [id |-> id, setAt |-> t, delay |-> getDelay(r, ws), at |-> r.wordIndex,
   step |-> Step(r.settings), len |-> Len(ws), startTime |-> r.startTime,
   wpm |-> r.settings.wpm]

\* the moment the browser runs the callback of timer t
Due(t) == t.setAt + t.delay

\* variant: every start of playback stamps startTime (no test of !startTime)
PlaybackEffectRestamp(r, ws, ts, ref, t) ==
  LET cleaned == Cleanup(ts, ref)
  IN IF r.isPlaying /\ ~r.showContext /\ r.wordIndex < Len(ws)
     THEN LET id == FreshId(cleaned, ref)
          IN [timers |-> cleaned \cup {NewTimer(id, r, ws, t)},
              timerRef |-> id,
              startTime |-> IF r.startTime # t THEN t ELSE r.startTime]
     ELSE [timers |-> cleaned, timerRef |-> ref, startTime |-> r.startTime]

\* the body of the playback effect, after its cleanup
PlaybackEffect(r, ws, ts, ref, t) ==
  LET cleaned == Cleanup(ts, ref)
  IN IF r.isPlaying /\ ~r.showContext /\ r.wordIndex < Len(ws)
     THEN LET id == FreshId(cleaned, ref)
          IN [timers |-> cleaned \cup {NewTimer(id, r, ws, t)},
              timerRef |-> id,
              startTime |-> IF r.startTime = NoTime THEN t ELSE r.startTime]
     ELSE [timers |-> cleaned, timerRef |-> ref, startTime |-> r.startTime]

\* variant: the effect is not run again after it set startTime (startTime and
\* playNext missing from its dependencies), so the timer keeps the first playNext
CommitOnce(old, new, ws, ts, ref, t) ==
  IF PlaybackDeps(old) = PlaybackDeps(new)
  THEN [timers |-> ts, timerRef |-> ref, startTime |-> new.startTime]
  ELSE PlaybackEffect(new, ws, ts, ref, t)

\* the commit of a render whose state went from old to new: the playback effect
\* runs when one of its dependencies changed, and once more when the effect itself
\* set startTime (playNext is then a new function)
Commit(old, new, ws, ts, ref, t) ==
  IF PlaybackDeps(old) = PlaybackDeps(new)
  THEN [timers |-> ts, timerRef |-> ref, startTime |-> new.startTime]
  ELSE LET e1 == PlaybackEffect(new, ws, ts, ref, t)
       IN IF e1.startTime # new.startTime
          THEN PlaybackEffect([new EXCEPT !.startTime = e1.startTime], ws,
                              e1.timers, e1.timerRef, t)
          ELSE e1

----------------------------------------------------------------------------
(* Events *)

PositionChanged(i) == <<"positionChanged", i>>
\* (Date.now() - startTime) / 1000: seconds, kept as the fraction ms / 1000
Seconds(ms) == [num |-> ms, den |-> 1000]

SessionEnded(wpm, n, ms) == <<"sessionEnded", wpm, n, Seconds(ms)>>

IsPositionChanged(e) == e[1] = "positionChanged"
IsSessionEnded(e) == e[1] = "sessionEnded"

\* useEffect(() => onPositionChange?.(wordIndex), [wordIndex, onPositionChange])
PositionEffect(old, new) ==
  IF new.wordIndex # old.wordIndex THEN <<PositionChanged(new.wordIndex)>> ELSE <<>>

----------------------------------------------------------------------------
(* Play states of the controller, read off the component's state *)

\* the condition under which the playback effect keeps a timer running
Playing == isPlaying /\ ~showContext /\ wordIndex < Len(words)
ContextView == showContext
Paused == ~isPlaying /\ ~showContext

PlayingIn(r, ws) == r.isPlaying /\ ~r.showContext /\ r.wordIndex < Len(ws)

\* the number of onSessionEnd calls among the events of one handler
SessionEnds(seq) == Cardinality({i \in 1..Len(seq) : IsSessionEnded(seq[i])})

----------------------------------------------------------------------------
(* The vocabulary while the reader is shown and no word is being defined:   *)
(* the pacing controller does not touch it.                                 *)

ReaderShown ==
  /\ view = "reader"
  /\ definition = FALSE
  /\ vocab = <<>>
  /\ reviewQueue = <<>>
  /\ reviewMode = FALSE
  /\ currentCardIndex = 0
  /\ isFlipped = FALSE
  /\ crashed = FALSE
  /\ graded = <<>>
  /\ nWaits = 0
  /\ sessionQueue = <<>>
  /\ sessionGraded = <<>>

----------------------------------------------------------------------------
(* Initial state: the component has been mounted by App with                *)
(* initialPosition = activeItem.lastPosition, a position of the text, and   *)
(* its effects have run once (nothing plays, the position is reported).     *)

Init ==
  /\ \E n \in TokenCounts : words = Text(n)
  /\ wordIndex \in 0..Max(0, Len(words) - 1)
  /\ isPlaying = FALSE
  /\ showContext = FALSE
  /\ startTime = NoTime
  /\ settings \in [wpm : WpmValues, mode : Modes, chunkSize : ChunkSizes]
  /\ timers = {}
  /\ timerRef = NoTimer
  /\ now = StartClock
  /\ lastCmd = "mount"
  /\ emitted = <<PositionChanged(wordIndex)>>
  /\ nTicks = 0
  /\ runEnds = 0
  /\ ctxFrom = "none"
  /\ pausedMid = FALSE
  /\ text = Join(words)
  /\ boldRatio = DefaultBoldRatio
  /\ ReaderShown

----------------------------------------------------------------------------
(* One handler: its state updates (new), the events it emitted before the  *)
(* commit (pre), then the commit with its effects.  ts is the set of       *)
(* pending timers when the handler runs (a timer callback has left it).    *)

\* how the context view was entered, kept until the next command that is not the
\* exit: "playing" when the controller was Playing just before, "other" otherwise
EnterKind(old, new) ==
  IF ~old.showContext /\ new.showContext
  THEN IF PlayingIn(old, words) THEN "playing" ELSE "other"
  ELSE IF old.showContext /\ ~new.showContext THEN ctxFrom
  ELSE "none"

\* a pause that cancels a timer set some time before is remembered until the
\* command after the next play command
PausedMid(cmd, ts) ==
  IF cmd = "pause" THEN \E t \in ts : t.setAt < now
  ELSE IF cmd = "play" THEN pausedMid
  ELSE FALSE

Handle(cmd, new, ts, pre, ticks) ==
  LET old == Cur
      c == Commit(old, new, words, ts, timerRef, now)
  IN /\ wordIndex' = new.wordIndex
     /\ isPlaying' = new.isPlaying
     /\ showContext' = new.showContext
     /\ settings' = new.settings
     /\ startTime' = c.startTime
     /\ timers' = c.timers
     /\ timerRef' = c.timerRef
     /\ emitted' = pre \o PositionEffect(old, new)
     /\ lastCmd' = cmd
     /\ nTicks' = ticks
     /\ runEnds' = IF cmd = "play"
                   THEN 0
                   ELSE Min(2, runEnds + SessionEnds(pre))
     /\ ctxFrom' = EnterKind(old, new)
     /\ pausedMid' = PausedMid(cmd, ts)
     /\ UNCHANGED <<words, now, text, boldRatio, vocabVars>>

\* a handler of the user: no timer callback is involved
User(cmd, new) ==
  Handle(cmd, new, timers, <<>>, nTicks)

----------------------------------------------------------------------------
(* The commands of the controller, as the handlers carry them out: the     *)
(* play/pause toggles are "play" or "pause" by the state they find, the    *)
(* context toggles "enterContext" or "exitContext", every handler that     *)
(* sets the position is "seek" (Reset, which also pauses, is "reset"), a   *)
(* timer callback is "tick", or "tickEnd" when playNext took its end       *)
(* branch.  Time passing is no command.                                    *)

Commands == {"mount", "play", "pause", "enterContext", "exitContext", "seek",
             "reset", "settings", "tick", "tickEnd"}

(* Keyboard shortcuts (handleKeyDown) *)

KeyC ==
  User(IF showContext THEN "exitContext" ELSE "enterContext",
       [Cur EXCEPT !.showContext = ~showContext, !.isPlaying = FALSE])

KeySpace ==
  User(IF isPlaying THEN "pause" ELSE "play",
       [Cur EXCEPT !.isPlaying = ~isPlaying])

KeyArrowLeft ==
  User("seek", [Cur EXCEPT !.wordIndex = Max(0, wordIndex - 10)])

KeyArrowRight ==
  User("seek", [Cur EXCEPT !.wordIndex = Min(Len(words) - 1, wordIndex + 10)])

(* The stage window: onMouseEnter and onMouseLeave, whenever the browser    *)
(* delivers them (where the pointer is is not part of the state)            *)

\* variant: onMouseEnter opens the context view without setIsPlaying(false)
MouseEnterKeepPlaying ==
  User("enterContext", [Cur EXCEPT !.showContext = TRUE])

MouseEnter ==
  User("enterContext", [Cur EXCEPT !.isPlaying = FALSE, !.showContext = TRUE])

MouseLeave ==
  User("exitContext", [Cur EXCEPT !.showContext = FALSE])

(* Footer controls *)

Rewind ==
  User("seek", [Cur EXCEPT !.wordIndex = Max(0, wordIndex - 50)])

PlayButton ==
  User(IF isPlaying THEN "pause" ELSE "play",
       [Cur EXCEPT !.isPlaying = ~isPlaying])

FastForward ==
  User("seek", [Cur EXCEPT !.wordIndex = Min(Len(words) - 1, wordIndex + 50)])

Reset ==
  User("reset", [Cur EXCEPT !.wordIndex = 0, !.isPlaying = FALSE])

\* <input type="range" min="0" max={words.length - 1}>: onChange fires with another
\* value of the range
Slider ==
  /\ \E v \in 0..(Len(words) - 1) :
       /\ v # wordIndex
       /\ User("seek", [Cur EXCEPT !.wordIndex = v])

(* Settings panel (App.tsx, SettingsPanel.updateSetting) *)

SetMode ==
  /\ \E m \in Modes :
       User("settings", [Cur EXCEPT !.settings.mode = m])

SetWpm ==
  /\ \E v \in WpmValues :
       /\ v # settings.wpm
       /\ User("settings", [Cur EXCEPT !.settings.wpm = v])

\* the chunk size slider is rendered in chunk mode only, with min 2
SetChunkSize ==
  /\ settings.mode = "rsvp-chunk"
  /\ \E v \in ChunkSizes :
       /\ v >= 2
       /\ v # settings.chunkSize
       /\ User("settings", [Cur EXCEPT !.settings.chunkSize = v])

----------------------------------------------------------------------------
(* The timer callback *)

\* variant: the end test written next > words.length
playNextLateEnd(t, r, clock) ==
  LET next == r.wordIndex + t.step
  IN IF next > t.len
     THEN [state |-> [r EXCEPT !.isPlaying = FALSE],
           events |-> IF t.startTime # NoTime
                      THEN <<SessionEnded(t.wpm, t.len, clock - t.startTime)>>
                      ELSE <<>>,
           ended |-> TRUE]
     ELSE [state |-> [r EXCEPT !.wordIndex = next],
           events |-> <<>>,
           ended |-> FALSE]

\* variant: wordsRead reported as the words up to the current one
playNextWordsSoFar(t, r, clock) ==
  LET next == r.wordIndex + t.step
  IN IF next >= t.len
     THEN [state |-> [r EXCEPT !.isPlaying = FALSE],
           events |-> IF t.startTime # NoTime
                      THEN <<SessionEnded(t.wpm, r.wordIndex + 1, clock - t.startTime)>>
                      ELSE <<>>,
           ended |-> TRUE]
     ELSE [state |-> [r EXCEPT !.wordIndex = next],
           events |-> <<>>,
           ended |-> FALSE]

\* variant: the end branch does not call setIsPlaying(false)
playNextKeepPlaying(t, r, clock) ==
  LET next == r.wordIndex + t.step
  IN IF next >= t.len
     THEN [state |-> r,
           events |-> IF t.startTime # NoTime
                      THEN <<SessionEnded(t.wpm, t.len, clock - t.startTime)>>
                      ELSE <<>>,
           ended |-> TRUE]
     ELSE [state |-> [r EXCEPT !.wordIndex = next],
           events |-> <<>>,
           ended |-> FALSE]

\* variant: the end branch returns next instead of prev
playNextAdvanceAtEnd(t, r, clock) ==
  LET next == r.wordIndex + t.step
  IN IF next >= t.len
     THEN [state |-> [r EXCEPT !.isPlaying = FALSE, !.wordIndex = next],
           events |-> IF t.startTime # NoTime
                      THEN <<SessionEnded(t.wpm, t.len, clock - t.startTime)>>
                      ELSE <<>>,
           ended |-> TRUE]
     ELSE [state |-> [r EXCEPT !.wordIndex = next],
           events |-> <<>>,
           ended |-> FALSE]

\* playNext, the callback of timer t, applied to the state r at time clock:
\* the updater passed to setWordIndex, with the calls it makes
playNext(t, r, clock) ==
  LET next == r.wordIndex + t.step
  IN IF next >= t.len
     THEN [state |-> [r EXCEPT !.isPlaying = FALSE],
           events |-> IF t.startTime # NoTime
                      THEN <<SessionEnded(t.wpm, t.len, clock - t.startTime)>>
                      ELSE <<>>,
           ended |-> TRUE]
     ELSE [state |-> [r EXCEPT !.wordIndex = next],
           events |-> <<>>,
           ended |-> FALSE]

\* a pending timer whose delay has passed fires
Fire(ticks) ==
  \E t \in timers :
    /\ now >= Due(t)
    /\ LET p == playNext(t, Cur, now)
       IN Handle(IF p.ended THEN "tickEnd" ELSE "tick", p.state,
                 timers \ {t}, p.events, ticks)

Tick == Fire(nTicks)

----------------------------------------------------------------------------
(* Time *)

\* time passes: up to the moment the pending timer is due, or by Quantum.  Nothing
\* reads the clock before playback first starts (the playback effect is the first
\* to call Date.now()), so the clock is followed from that moment on.
Elapse ==
  /\ startTime # NoTime
  /\ \E d \in {Quantum} \cup {Due(t) - now : t \in timers} :
       /\ d > 0
       /\ now + d <= MaxNow
       /\ \A t \in timers : now + d <= Due(t)
       /\ now' = now + d
  /\ UNCHANGED <<words, wordIndex, isPlaying, showContext, startTime, settings,
                 timers, timerRef, lastCmd, emitted, nTicks, runEnds, ctxFrom,
                 pausedMid, text, boldRatio, vocabVars>>

----------------------------------------------------------------------------

Next ==
  \/ KeyC
  \/ KeySpace
  \/ KeyArrowLeft
  \/ KeyArrowRight
  \/ MouseEnter
  \/ MouseLeave
  \/ Rewind
  \/ PlayButton
  \/ FastForward
  \/ Reset
  \/ Slider
  \/ SetMode
  \/ SetWpm
  \/ SetChunkSize
  \/ Tick
  \/ Elapse

Spec == Init /\ [][Next]_vars

----------------------------------------------------------------------------
(* Play runs in chunk mode from the first token: the reader is mounted at  *)
(* position 0 with mode rsvp-chunk, and only the play/pause button and the *)
(* timer act.  nTicks counts the timer callbacks that have run.            *)

RunInit ==
  /\ \E n \in 1..RunTokens : words = Text(n)
  /\ wordIndex = 0
  /\ isPlaying = FALSE
  /\ showContext = FALSE
  /\ startTime = NoTime
  /\ settings \in [wpm : WpmValues, mode : {"rsvp-chunk"}, chunkSize : ChunkSizes]
  /\ timers = {}
  /\ timerRef = NoTimer
  /\ now = StartClock
  /\ lastCmd = "mount"
  /\ emitted = <<PositionChanged(wordIndex)>>
  /\ nTicks = 0
  /\ runEnds = 0
  /\ ctxFrom = "none"
  /\ pausedMid = FALSE
  /\ text = Join(words)
  /\ boldRatio = DefaultBoldRatio
  /\ ReaderShown

CountedTick == Fire(nTicks + 1)

\* time passes up to the moment the pending timer is due
Wait ==
  /\ \E t \in timers :
       /\ now < Due(t)
       /\ Due(t) <= StartClock + RunHorizon
       /\ now' = Due(t)
  /\ UNCHANGED <<words, wordIndex, isPlaying, showContext, startTime, settings,
                 timers, timerRef, lastCmd, emitted, nTicks, runEnds, ctxFrom,
                 pausedMid, text, boldRatio, vocabVars>>

RunNext ==
  \/ PlayButton
  \/ CountedTick
  \/ Wait

SpecChunkRun == RunInit /\ [][RunNext]_vars

----------------------------------------------------------------------------
(* A play run that is started once and left alone, with the scheduling of  *)
(* the browser: the clock goes on, and a timer whose delay has passed has  *)
(* its callback run                                                        *)

\* the reader is mounted on a text of 1 to RunTokens tokens at a saved position
LiveInit ==
  /\ \E n \in 1..RunTokens : words = Text(n)
  /\ wordIndex \in 0..(Len(words) - 1)
  /\ isPlaying = FALSE
  /\ showContext = FALSE
  /\ startTime = NoTime
  /\ settings \in [wpm : WpmValues, mode : Modes, chunkSize : ChunkSizes]
  /\ timers = {}
  /\ timerRef = NoTimer
  /\ now = StartClock
  /\ lastCmd = "mount"
  /\ emitted = <<PositionChanged(wordIndex)>>
  /\ nTicks = 0
  /\ runEnds = 0
  /\ ctxFrom = "none"
  /\ pausedMid = FALSE
  /\ text = Join(words)
  /\ boldRatio = DefaultBoldRatio
  /\ ReaderShown

\* the play button, pressed once after mount
StartRun ==
  /\ lastCmd = "mount"
  /\ PlayButton

\* time passes up to the moment the pending timer is due
TimerDue ==
  /\ \E t \in timers :
       /\ now < Due(t)
       /\ now' = Due(t)
  /\ UNCHANGED <<words, wordIndex, isPlaying, showContext, startTime, settings,
                 timers, timerRef, lastCmd, emitted, nTicks, runEnds, ctxFrom,
                 pausedMid, text, boldRatio, vocabVars>>

LiveNext ==
  \/ StartRun
  \/ CountedTick
  \/ TimerDue

SpecLiveRun ==
  /\ LiveInit
  /\ [][LiveNext]_vars
  /\ WF_vars(CountedTick)
  /\ WF_vars(TimerDue)

----------------------------------------------------------------------------
(* SettingsPanel.updateSetting as a function: it takes a key and a value of *)
(* type any, and the values here include numbers the range inputs of the    *)
(* panel (wpm 100..1500, chunkSize 2..5) do not deliver.                    *)

AnyWpm == {-300, 0} \cup WpmValues
AnyChunkSizes == {-1, 0} \cup ChunkSizes

\* updateSetting(key, value): setSettings({ ...settings, [key]: value })
updateSetting(key, value) ==
  User("settings", [Cur EXCEPT !.settings[key] = value])

ApplyWpm ==
  /\ \E v \in AnyWpm :
       /\ v # settings.wpm
       /\ updateSetting("wpm", v)

ApplyChunkSize ==
  /\ settings.mode = "rsvp-chunk"
  /\ \E v \in AnyChunkSizes :
       /\ v # settings.chunkSize
       /\ updateSetting("chunkSize", v)

SettingsNext ==
  \/ ApplyWpm
  \/ ApplyChunkSize
  \/ SetMode

SpecSettings == Init /\ [][SettingsNext]_vars

----------------------------------------------------------------------------
(* The delay of single tokens: the reader is mounted on a text of one token, *)
(* with any reading mode, and the play button sets the timer for it.         *)

ReadingModes == {"rsvp-single", "rsvp-chunk", "flow", "classic"}

DelayTokens ==
  {<<"h", "e", "l", "l", "o">>,
   <<"h", "e", "l", "l", "o", ".">>,
   <<"h", "e", "l", "l", "o", ",">>,
   <<"w", "h", "a", "t", "?">>,
   <<"s", "t", "o", "p", "!">>,
   <<"w", "a", "i", "t", ";">>,
   <<"n", "o", "t", "e", ":">>,
   <<"e", "x", "t", "r", "a", "o", "r", "d", "i", "n", "a", "r", "y">>,
   <<"e", "x", "t", "r", "a", "o", "r", "d", "i", "n", "a", "r", "y", ".">>,
   <<"e", "x", "t", "r", "a", "o", "r", "d", "i", "n", "a", "r", "y", ",">>,
   <<"s", "t", "r", "a", "w", "b", "e", "r", "r", "y">>,
   <<"i", "m", "a", "g", "i", "n", "a", "t", "i", "o", "n">>,
   <<"a", ".", "b">>}

DelayInit ==
  /\ \E w \in DelayTokens : words = <<w>>
  /\ wordIndex = 0
  /\ isPlaying = FALSE
  /\ showContext = FALSE
  /\ startTime = NoTime
  /\ settings \in [wpm : WpmValues, mode : ReadingModes, chunkSize : ChunkSizes]
  /\ timers = {}
  /\ timerRef = NoTimer
  /\ now = StartClock
  /\ lastCmd = "mount"
  /\ emitted = <<PositionChanged(wordIndex)>>
  /\ nTicks = 0
  /\ runEnds = 0
  /\ ctxFrom = "none"
  /\ pausedMid = FALSE
  /\ text = Join(words)
  /\ boldRatio = DefaultBoldRatio
  /\ ReaderShown

SpecDelay == DelayInit /\ [][RunNext]_vars

----------------------------------------------------------------------------
(* The vocabulary: saveToVocab of the reader, App.addVocab and              *)
(* App.handleUpdateWord, and the review of src/components/VocabularyView.tsx. *)
(* An entry is [id, date, proficiency, nextReview]; the word and its        *)
(* definition play no part in the scheduling.  One library item is active.  *)

MaxVocab == 2           \* at most MaxVocab words are saved
MaxWaits == 2           \* time is let pass at most MaxWaits times

MinuteMs == 60 * 1000

\* the stretches of time let pass between the user's actions: the three review
\* intervals
Waits == {10 * MinuteMs, 24 * 60 * MinuteMs, 3 * 24 * 60 * MinuteMs}

Ratings == {"hard", "good", "easy"}

\* Array.prototype.sort((a, b) => b.date - a.date): stable, newest first
RECURSIVE InsertByDate(_, _)
InsertByDate(e, sorted) ==
  IF sorted = <<>> THEN <<e>>
  ELSE IF Head(sorted).date <= e.date THEN <<e>> \o sorted
  ELSE <<Head(sorted)>> \o InsertByDate(e, Tail(sorted))

RECURSIVE SortByDateDesc(_)
SortByDateDesc(seq) ==
  IF seq = <<>> THEN <<>>
  ELSE InsertByDate(Head(seq), SortByDateDesc(Tail(seq)))

\* allVocab: library.flatMap(item => item.vocabulary).sort(...)
allVocab(v) == SortByDateDesc(v)

\* variant: a review queue of all the words, due or not
reviewQueueAll(v, t) == allVocab(v)

\* variant: an entry is due only after its review time has passed
reviewQueueStrict(v, t) ==
  SelectSeq(allVocab(v), LAMBDA e : e.nextReview = 0 \/ e.nextReview < t)

\* reviewQueue: allVocab.filter(v => !v.nextReview || v.nextReview <= now), as
\* computed at time t
reviewQueueAt(v, t) ==
  SelectSeq(allVocab(v), LAMBDA e : e.nextReview = 0 \/ e.nextReview <= t)

\* variant: easy counted like good
GradeEasyAsGood(word, rating, t) ==
  LET p == word.proficiency
      interval == CASE rating = "hard" -> 10
                    [] rating = "good" -> 24 * 60
                    [] rating = "easy" -> 3 * 24 * 60
                    [] OTHER -> 0
      newProficiency == CASE rating = "hard" -> Max(0, p - 1)
                          [] rating = "good" -> Min(5, p + 1)
                          [] rating = "easy" -> Min(5, p + 1)
                          [] OTHER -> p
  IN [proficiency |-> newProficiency, nextReview |-> t + interval * 60 * 1000]

\* variant: the proficiency is not capped at 5
GradeNoCap(word, rating, t) ==
  LET p == word.proficiency
      interval == CASE rating = "hard" -> 10
                    [] rating = "good" -> 24 * 60
                    [] rating = "easy" -> 3 * 24 * 60
                    [] OTHER -> 0
      newProficiency == CASE rating = "hard" -> Max(0, p - 1)
                          [] rating = "good" -> p + 1
                          [] rating = "easy" -> p + 2
                          [] OTHER -> p
  IN [proficiency |-> newProficiency, nextReview |-> t + interval * 60 * 1000]

\* the updates handleReview computes for word at time t (the "Simple SRS Logic")
Grade(word, rating, t) ==
  LET p == word.proficiency
      interval == CASE rating = "hard" -> 10
                    [] rating = "good" -> 24 * 60
                    [] rating = "easy" -> 3 * 24 * 60
                    [] OTHER -> 0
      newProficiency == CASE rating = "hard" -> Max(0, p - 1)
                          [] rating = "good" -> Min(5, p + 1)
                          [] rating = "easy" -> Min(5, p + 2)
                          [] OTHER -> p
  IN [proficiency |-> newProficiency, nextReview |-> t + interval * 60 * 1000]

\* variant: every entry takes the updates
handleUpdateWordAll(v, wordId, updates) ==
  [i \in 1..Len(v) |->
     [v[i] EXCEPT !.proficiency = updates.proficiency,
                  !.nextReview = updates.nextReview]]

\* App.handleUpdateWord: every entry with the id takes the updates
handleUpdateWord(v, wordId, updates) ==
  [i \in 1..Len(v) |->
     IF v[i].id = wordId
     THEN [v[i] EXCEPT !.proficiency = updates.proficiency,
                       !.nextReview = updates.nextReview]
     ELSE v[i]]

\* the review screen is rendered: reviewMode && reviewQueue.length > 0
ReviewShown == view = "vocab" /\ reviewMode /\ Len(reviewQueue) > 0

\* the state after mount: no vocabulary yet, the reader is shown, idle, on a text
\* of one token
VocabInit ==
  /\ words = Text(1)
  /\ wordIndex = 0
  /\ isPlaying = FALSE
  /\ showContext = FALSE
  /\ startTime = NoTime
  /\ settings = [wpm |-> 300, mode |-> "rsvp-single", chunkSize |-> 1]
  /\ timers = {}
  /\ timerRef = NoTimer
  /\ now = StartClock
  /\ lastCmd = "mount"
  /\ emitted = <<PositionChanged(wordIndex)>>
  /\ nTicks = 0
  /\ runEnds = 0
  /\ ctxFrom = "none"
  /\ pausedMid = FALSE
  /\ text = Join(words)
  /\ boldRatio = DefaultBoldRatio
  /\ ReaderShown

\* handleDefine has returned with a definition: setDefinition({word, ...result}).
\* The lookup is a network call made after the last save, and it does not return
\* within the millisecond of that save (ids are Date.now().toString()).
Define ==
  /\ ~crashed
  /\ view = "reader"
  /\ ~definition
  /\ \A i \in 1..Len(vocab) : vocab[i].date # now
  /\ definition' = TRUE
  /\ UNCHANGED <<readerVars, now, view, vocab, reviewQueue, reviewMode,
                 currentCardIndex, isFlipped, crashed, graded, nWaits,
                 sessionQueue, sessionGraded>>

\* saveToVocab, with App.addVocab: the new entry goes in front
saveToVocab ==
  /\ ~crashed
  /\ view = "reader"
  /\ definition
  /\ Len(vocab) < MaxVocab
  /\ vocab' = <<[id |-> now, date |-> now, proficiency |-> 0,
                 nextReview |-> now]>> \o vocab
  /\ definition' = FALSE
  /\ UNCHANGED <<readerVars, now, view, reviewQueue, reviewMode,
                 currentCardIndex, isFlipped, crashed, graded, nWaits,
                 sessionQueue, sessionGraded>>

\* the navigation to the vocabulary: VocabularyView mounts, its memos are computed
OpenVocab ==
  /\ ~crashed
  /\ view = "reader"
  /\ view' = "vocab"
  /\ definition' = FALSE
  /\ reviewQueue' = reviewQueueAt(vocab, now)
  /\ reviewMode' = FALSE
  /\ currentCardIndex' = 0
  /\ isFlipped' = FALSE
  /\ sessionQueue' = <<>>
  /\ sessionGraded' = <<>>
  /\ UNCHANGED <<readerVars, now, vocab, crashed, graded, nWaits>>

\* the navigation back to the reader: VocabularyView unmounts
OpenReader ==
  /\ ~crashed
  /\ view = "vocab"
  /\ view' = "reader"
  /\ reviewQueue' = <<>>
  /\ reviewMode' = FALSE
  /\ currentCardIndex' = 0
  /\ isFlipped' = FALSE
  /\ sessionQueue' = <<>>
  /\ sessionGraded' = <<>>
  /\ UNCHANGED <<readerVars, now, definition, vocab, crashed, graded, nWaits>>

\* the "Review Due" button, rendered when reviewQueue.length > 0
StartReview ==
  /\ ~crashed
  /\ view = "vocab"
  /\ ~reviewMode
  /\ Len(reviewQueue) > 0
  /\ reviewMode' = TRUE
  /\ crashed' = (currentCardIndex >= Len(reviewQueue))
  /\ sessionQueue' = [i \in 1..Len(reviewQueue) |-> reviewQueue[i].id]
  /\ sessionGraded' = <<>>
  /\ UNCHANGED <<readerVars, now, view, definition, vocab, reviewQueue,
                 currentCardIndex, isFlipped, graded, nWaits>>

\* a click on the card
FlipCard ==
  /\ ~crashed
  /\ ReviewShown
  /\ isFlipped' = ~isFlipped
  /\ UNCHANGED <<readerVars, now, view, definition, vocab, reviewQueue, reviewMode,
                 currentCardIndex, crashed, graded, nWaits, sessionQueue,
                 sessionGraded>>

\* "Exit Review"
ExitReview ==
  /\ ~crashed
  /\ ReviewShown
  /\ reviewMode' = FALSE
  /\ UNCHANGED <<readerVars, now, view, definition, vocab, reviewQueue,
                 currentCardIndex, isFlipped, crashed, graded, nWaits,
                 sessionQueue, sessionGraded>>

\* handleReview(rating), with the render that follows: the library changed, so
\* allVocab and reviewQueue are computed anew; the review screen reads
\* reviewQueue[currentCardIndex].word, which throws when the index is past the end
handleReview(rating) ==
  /\ ~crashed
  /\ ReviewShown
  /\ isFlipped
  /\ LET word == reviewQueue[currentCardIndex + 1]
         updates == Grade(word, rating, now)
         more == currentCardIndex < Len(reviewQueue) - 1
     IN /\ vocab' = handleUpdateWord(vocab, word.id, updates)
        /\ reviewQueue' = reviewQueueAt(vocab', now)
        /\ isFlipped' = FALSE
        /\ currentCardIndex' = IF more THEN currentCardIndex + 1 ELSE 0
        /\ reviewMode' = more
        /\ crashed' = (more /\ Len(reviewQueue') > 0
                            /\ currentCardIndex' >= Len(reviewQueue'))
        /\ graded' = <<[rating |-> rating, id |-> word.id, before |-> word,
                        at |-> now, updates |-> updates]>>
        /\ sessionGraded' = Append(sessionGraded, word.id)
  /\ UNCHANGED <<readerVars, now, view, definition, nWaits, sessionQueue>>

\* the Hard, Good and Easy buttons, shown when the card is flipped
Review ==
  \E rating \in Ratings : handleReview(rating)

\* handleReview as a function of any string
ReviewUntyped ==
  \E rating \in {"again"} : handleReview(rating)

\* time passes between the user's actions; nothing is recomputed
VocabElapse ==
  /\ ~crashed
  /\ nWaits < MaxWaits
  /\ \E d \in Waits : now' = now + d
  /\ nWaits' = nWaits + 1
  /\ UNCHANGED <<readerVars, view, definition, vocab, reviewQueue, reviewMode,
                 currentCardIndex, isFlipped, crashed, graded, sessionQueue,
                 sessionGraded>>

VocabNext ==
  \/ Define
  \/ saveToVocab
  \/ OpenVocab
  \/ OpenReader
  \/ StartReview
  \/ FlipCard
  \/ ExitReview
  \/ Review
  \/ VocabElapse

SpecVocab == VocabInit /\ [][VocabNext]_vars

VocabAnyNext ==
  \/ VocabNext
  \/ ReviewUntyped

SpecVocabAny == VocabInit /\ [][VocabAnyNext]_vars

----------------------------------------------------------------------------
(* The display: the focal split of the single-word mode and the emphasis of *)
(* the chunk mode                                                           *)

\* String.prototype.substring(a, b): both ends clamped to 0..length, swapped
\* when a > b
Substring(str, a, b) ==
  LET lo == Max(0, Min(Len(str), Min(a, b)))
      hi == Max(0, Min(Len(str), Max(a, b)))
  IN SubSeq(str, lo + 1, hi)

\* variant: the thresholds one lower
getORPIndexEarly(len) ==
  IF len <= 1 THEN 0
  ELSE IF len <= 4 THEN 1
  ELSE IF len <= 8 THEN 2
  ELSE IF len <= 12 THEN 3
  ELSE 4

\* getORPIndex(word), as a function of word.length
getORPIndex(len) ==
  IF len <= 1 THEN 0
  ELSE IF len <= 5 THEN 1
  ELSE IF len <= 9 THEN 2
  ELSE IF len <= 13 THEN 3
  ELSE 4

\* renderSingleWord(word): the three parts put on the stage
renderSingleWord(word) ==
  LET orp == getORPIndex(Len(word))
  IN [left   |-> Substring(word, 0, orp),
      center |-> Substring(word, orp, orp + 1),
      right  |-> Substring(word, orp + 1, Len(word))]

\* \w of a regular expression: [A-Za-z0-9_]
WordChars ==
  {"a", "b", "c", "d", "e", "f", "g", "h", "i", "j", "k", "l", "m", "n", "o", "p", "q", "r", "s", "t", "u", "v", "w", "x", "y", "z"}
  \cup {"A", "B", "C", "D", "E", "F", "G", "H", "I", "J", "K", "L", "M", "N", "O", "P", "Q", "R", "S", "T", "U", "V", "W", "X", "Y", "Z"}
  \cup {"0", "1", "2", "3", "4", "5", "6", "7", "8", "9"}
  \cup {"_"}

\* the length of the longest prefix of str made of characters outside WordChars:
\* the greedy (\W*) at the start of /^(\W*)(.*?)(\W*)$/
RECURSIVE LeadingNonWord(_)
LeadingNonWord(str) ==
  IF str = <<>> \/ Head(str) \in WordChars THEN 0
  ELSE 1 + LeadingNonWord(Tail(str))

\* the length of the longest suffix of str made of characters outside WordChars:
\* the lazy (.*?) stops as soon as (\W*)$ matches the rest
RECURSIVE TrailingNonWord(_)
TrailingNonWord(str) ==
  IF str = <<>> \/ str[Len(str)] \in WordChars THEN 0
  ELSE 1 + TrailingNonWord(SubSeq(str, 1, Len(str) - 1))

\* Math.ceil(len * ratio) for a ratio num/den
CeilTimes(len, ratio) == (len * ratio.num + ratio.den - 1) \div ratio.den

\* variant: Math.floor in place of Math.ceil
processBionicTextFloor(part, ratio) ==
  IF part = <<>> THEN <<>>
  ELSE
    LET prefix == SubSeq(part, 1, LeadingNonWord(part))
        rest == SubSeq(part, Len(prefix) + 1, Len(part))
        coreWord == SubSeq(rest, 1, Len(rest) - TrailingNonWord(rest))
        suffix == SubSeq(rest, Len(coreWord) + 1, Len(rest))
        boldLength == Max(1, (Len(coreWord) * ratio.num) \div ratio.den)
    IN IF coreWord = <<>>
       THEN <<[kind |-> "plain", prefix |-> part, bold |-> <<>>, light |-> <<>>,
               suffix |-> <<>>]>>
       ELSE <<[kind |-> "bionic", prefix |-> prefix,
               bold |-> Substring(coreWord, 0, boldLength),
               light |-> Substring(coreWord, boldLength, Len(coreWord)),
               suffix |-> suffix]>>

\* processBionicText(text, boldRatio), for a text without whitespace (the chunk
\* render passes one token, which text.split(/(\s+)/) leaves whole): the list of
\* the rendered spans.  A span of kind "plain" shows its prefix as it is; a span
\* of kind "bionic" shows prefix, <strong>bold</strong>, light, suffix.
processBionicText(part, ratio) ==
  IF part = <<>> THEN <<>>
  ELSE
    LET prefix == SubSeq(part, 1, LeadingNonWord(part))
        rest == SubSeq(part, Len(prefix) + 1, Len(part))
        coreWord == SubSeq(rest, 1, Len(rest) - TrailingNonWord(rest))
        suffix == SubSeq(rest, Len(coreWord) + 1, Len(rest))
        boldLength == Max(1, CeilTimes(Len(coreWord), ratio))
    IN IF coreWord = <<>>
       THEN <<[kind |-> "plain", prefix |-> part, bold |-> <<>>, light |-> <<>>,
               suffix |-> <<>>]>>
       ELSE <<[kind |-> "bionic", prefix |-> prefix,
               bold |-> Substring(coreWord, 0, boldLength),
               light |-> Substring(coreWord, boldLength, Len(coreWord)),
               suffix |-> suffix]>>

\* variant: the chunk render shows the token at the position only
ChunkShownOne(ws, pos, size) == {pos} \cap (0..(Len(ws) - 1))

\* the indices of words.slice(wordIndex, wordIndex + settings.chunkSize)
ChunkShown(ws, pos, size) ==
  {i \in 0..(Len(ws) - 1) : i >= pos /\ i < pos + size}

\* the tokens of the text on display: plain tokens of 1 to 15 letters, then
\* tokens with punctuation around, inside or instead of the word
RenderTokens ==
  <<<<"a">>,
   <<"a", "b">>,
   <<"a", "b", "c">>,
   <<"a", "b", "c", "d">>,
   <<"a", "b", "c", "d", "e">>,
   <<"a", "b", "c", "d", "e", "f">>,
   <<"a", "b", "c", "d", "e", "f", "g">>,
   <<"a", "b", "c", "d", "e", "f", "g", "h">>,
   <<"a", "b", "c", "d", "e", "f", "g", "h", "i">>,
   <<"a", "b", "c", "d", "e", "f", "g", "h", "i", "j">>,
   <<"a", "b", "c", "d", "e", "f", "g", "h", "i", "j", "k">>,
   <<"a", "b", "c", "d", "e", "f", "g", "h", "i", "j", "k", "l">>,
   <<"a", "b", "c", "d", "e", "f", "g", "h", "i", "j", "k", "l", "m">>,
   <<"a", "b", "c", "d", "e", "f", "g", "h", "i", "j", "k", "l", "m", "n">>,
   <<"a", "b", "c", "d", "e", "f", "g", "h", "i", "j", "k", "l", "m", "n", "o">>,
   <<"t", "e", "s", "t", "i", "n", "g">>,
   <<"(", "t", "e", "s", "t", "i", "n", "g", ")">>,
   <<".", ".", ".">>,
   <<"d", "o", "n", "'", "t">>,
   <<"\"", "H", "i", "!", "\"">>,
   <<"x", ".">>,
   <<"-", "-", "a">>,
   <<"_", "a", "_">>,
   <<"1", ",", "5">>,
   <<"?">>>>

\* boldRatio as a fraction: 0, 1/4, 1/2, 3/4, 1
BoldRatios == {[num |-> k, den |-> 4] : k \in 0..4}

\* the reader is mounted on the text (or on an empty text) at a saved position,
\* in single-word or chunk mode, with any boldRatio
RenderInit ==
  /\ words \in {<<>>, RenderTokens}
  /\ wordIndex \in 0..Max(0, Len(words) - 1)
  /\ isPlaying = FALSE
  /\ showContext = FALSE
  /\ startTime = NoTime
  /\ settings \in [wpm : WpmValues, mode : Modes, chunkSize : ChunkSizes]
  /\ timers = {}
  /\ timerRef = NoTimer
  /\ now = StartClock
  /\ lastCmd = "mount"
  /\ emitted = <<PositionChanged(wordIndex)>>
  /\ nTicks = 0
  /\ runEnds = 0
  /\ ctxFrom = "none"
  /\ pausedMid = FALSE
  /\ text = Join(words)
  /\ boldRatio \in BoldRatios
  /\ ReaderShown

SpecRender == RenderInit /\ [][RunNext]_vars

----------------------------------------------------------------------------
(* The tokenizer, and the two places a text comes from: the import screen  *)
(* (addToLibrary) and the simplification of the active text                *)
(* (transformWithAi)                                                       *)

MaxTextLen == 4

\* characters matched by \s, and the characters of the texts
Whitespace == {" ", "\n", "\t"}
TextChars == {"a", ".", " ", "\n"}
Texts == UNION {[1..n -> TextChars] : n \in 0..MaxTextLen}

\* str.split(/\s+/): the pieces between the runs of whitespace, cur being the
\* piece read so far and inRun telling that the last character was whitespace.
\* A text that starts or ends with whitespace has an empty first or last piece.
RECURSIVE SplitWhitespace(_, _, _)
SplitWhitespace(str, cur, inRun) ==
  IF str = <<>> THEN <<cur>>
  ELSE IF Head(str) \in Whitespace
       THEN IF inRun
            THEN SplitWhitespace(Tail(str), cur, TRUE)
            ELSE <<cur>> \o SplitWhitespace(Tail(str), <<>>, TRUE)
       ELSE SplitWhitespace(Tail(str), Append(cur, Head(str)), FALSE)

\* variant: the empty pieces are kept
TokenizeKeepEmpty(str) ==
  SplitWhitespace(str, <<>>, FALSE)

\* text.split(/\s+/).filter(w => w.length > 0)
Tokenize(str) ==
  SelectSeq(SplitWhitespace(str, <<>>, FALSE), LAMBDA w : Len(w) > 0)

\* !content.trim()
IsBlank(str) == \A i \in 1..Len(str) : str[i] \in Whitespace

\* the import screen is open with a text typed or loaded into it; no reader is
\* mounted
ImportInit ==
  /\ text \in Texts
  /\ words = <<>>
  /\ wordIndex = 0
  /\ isPlaying = FALSE
  /\ showContext = FALSE
  /\ startTime = NoTime
  /\ settings = [wpm |-> 300, mode |-> "rsvp-single", chunkSize |-> 1]
  /\ timers = {}
  /\ timerRef = NoTimer
  /\ now = StartClock
  /\ lastCmd = "none"
  /\ emitted = <<>>
  /\ nTicks = 0
  /\ runEnds = 0
  /\ ctxFrom = "none"
  /\ pausedMid = FALSE
  /\ boldRatio = DefaultBoldRatio
  /\ view = "import"
  /\ definition = FALSE
  /\ vocab = <<>>
  /\ reviewQueue = <<>>
  /\ reviewMode = FALSE
  /\ currentCardIndex = 0
  /\ isFlipped = FALSE
  /\ crashed = FALSE
  /\ graded = <<>>
  /\ nWaits = 0
  /\ sessionQueue = <<>>
  /\ sessionGraded = <<>>

\* addToLibrary(title, content) with the text of the import screen: a blank text
\* is refused (nothing changes); otherwise the item becomes the active one and the
\* reader is mounted on its content at position 0
addToLibrary ==
  /\ view = "import"
  /\ ~IsBlank(text)
  /\ view' = "reader"
  /\ words' = Tokenize(text)
  /\ wordIndex' = 0
  /\ lastCmd' = "mount"
  /\ emitted' = <<PositionChanged(0)>>
  /\ UNCHANGED <<text, isPlaying, showContext, startTime, settings, timers,
                 timerRef, now, nTicks, runEnds, ctxFrom, pausedMid, boldRatio,
                 definition, vocab, reviewQueue, reviewMode, currentCardIndex,
                 isFlipped, crashed, graded, nWaits, sessionQueue, sessionGraded>>

\* transformWithAi has returned, the reader being idle: the content of the active
\* item is replaced by the text the service delivered, whatever it is, and the
\* mounted reader computes its words from the new text prop; its position stays
transformWithAi ==
  /\ view = "reader"
  /\ ~crashed
  /\ ~isPlaying
  /\ \E simplified \in Texts :
       /\ text' = simplified
       /\ words' = Tokenize(simplified)
  /\ lastCmd' = "transform"
  /\ emitted' = <<>>
  /\ UNCHANGED <<wordIndex, isPlaying, showContext, startTime, settings, timers,
                 timerRef, now, nTicks, runEnds, ctxFrom, pausedMid, boldRatio,
                 vocabVars>>

ImportNext ==
  \/ addToLibrary
  \/ transformWithAi

SpecImport == ImportInit /\ [][ImportNext]_vars

----------------------------------------------------------------------------
(* Properties of the pacing controller *)

\* a step of the timer callback (time passing leaves lastCmd as it is)
TickStep == now' = now /\ lastCmd' \in {"tick", "tickEnd"}

\* C1: with at least one token and an initial position inside the text, every
\* reachable position is inside the text: 0 <= position < tokenCount.
C1_PositionInRange ==
  Len(words) >= 1 => (0 <= wordIndex /\ wordIndex < Len(words))

\* the last token is showing after the timer callback found nothing to advance to
C1_Witness ==
  /\ Len(words) >= 2
  /\ lastCmd = "tickEnd"
  /\ wordIndex = Len(words) - 1

\* C2: at most one advance-timer is pending in every reachable state, and it is
\* the one timerRef names (the one the next cleanup cancels).
C2_OneTimer ==
  /\ Cardinality(timers) <= 1
  /\ \A t \in timers : t.id = timerRef

\* a settings change while playing has set a timer in place of the pending one
C2_Witness ==
  /\ lastCmd = "settings"
  /\ Cardinality(timers) = 1
  /\ now > StartClock

\* C3: a pause or an enterContext cancels the pending timer and leaves the
\* position unchanged; while the controller is paused or in the context view no
\* timer is pending and the position changes only by a seek.
C3_PauseCancels ==
  [][ /\ (lastCmd' \in {"pause", "enterContext"} =>
            (timers' = {} /\ wordIndex' = wordIndex))
      /\ ((~isPlaying \/ showContext) =>
            /\ timers = {}
            /\ (wordIndex' # wordIndex => lastCmd' \in {"seek", "reset"})) ]_vars

\* the context view was entered while a timer, set some time before, was pending
C3_Witness ==
  /\ lastCmd = "enterContext"
  /\ ctxFrom = "playing"
  /\ now > StartClock
  /\ timers = {}

\* C4: a seek while Playing cancels the timer of the pre-seek position: after a
\* seek to another index j the one pending timer is the one set at the seek for
\* position j (none when the new position is outside the text: nothing plays
\* there), every pending timer is for the current position, and the timer
\* callback lands on (current position + step), which is the index it reports.
C4_SeekReschedules ==
  /\ [](\A t \in timers : t.at = wordIndex /\ t.step = Step(settings))
  /\ [][ /\ (lastCmd' = "seek" /\ now' = now /\ Playing /\ wordIndex' # wordIndex) =>
              timers' = IF Playing' THEN {NewTimer(timerRef', Cur', words, now)}
                                    ELSE {}
         /\ (TickStep /\ lastCmd' = "tick") =>
              /\ wordIndex' = wordIndex + Step(settings)
              /\ emitted' = <<PositionChanged(wordIndex + Step(settings))>> ]_vars

\* a seek moved the position while a timer set earlier was pending
C4_Witness ==
  /\ lastCmd = "seek"
  /\ emitted # <<>>
  /\ Playing
  /\ now > StartClock
  /\ \E t \in timers : t.setAt = now

\* C5 (as stated): from position 0 in chunk mode with chunkSize c, the position
\* after N ticks is min(N*c, tokenCount-1), and the run finishes at tokenCount-1.
C5_AsStated ==
  /\ wordIndex = Min(nTicks * settings.chunkSize, Len(words) - 1)
  /\ (lastCmd = "tickEnd" => wordIndex = Len(words) - 1)

\* the last position an uninterrupted chunk run from 0 shows: the largest multiple
\* of c below tokenCount
LastChunkStart == settings.chunkSize * ((Len(words) - 1) \div settings.chunkSize)

\* C5 (amended): from position 0 in chunk mode with chunkSize c, the position
\* after N ticks is min(N*c, c*floor((tokenCount-1)/c)); tick N ends the run
\* exactly when N > floor((tokenCount-1)/c), that is when position + c >=
\* tokenCount, and it leaves the position at c*floor((tokenCount-1)/c).
C5_ChunkPositions ==
  /\ wordIndex = Min(nTicks * settings.chunkSize, LastChunkStart)
  /\ (lastCmd = "tickEnd" =>
        /\ nTicks > (Len(words) - 1) \div settings.chunkSize
        /\ wordIndex = LastChunkStart)
  /\ (lastCmd = "tick" => nTicks <= (Len(words) - 1) \div settings.chunkSize)

\* a chunk run has ended before the last index of the text
C5_Witness ==
  /\ lastCmd = "tickEnd"
  /\ nTicks >= 2
  /\ wordIndex < Len(words) - 1

\* C6: sessionEnded is emitted exactly once per completed play run: a handler
\* emits one sessionEnded when it is the timer callback that reached the end of
\* the text and none otherwise, and no run (from one play command to the next)
\* emits two.
C6_SessionEndedOnce ==
  /\ SessionEnds(emitted) = (IF lastCmd = "tickEnd" THEN 1 ELSE 0)
  /\ (lastCmd = "tickEnd" => runEnds = 1)
  /\ runEnds <= 1

\* a run over a text of several tokens has completed
C6_Witness ==
  /\ lastCmd = "tickEnd"
  /\ runEnds = 1
  /\ Len(words) >= 2
  /\ ~isPlaying

\* C7: a tick whose advanced position (position + step) would reach or exceed
\* tokenCount stops playback, leaves the position, and emits exactly
\* sessionEnded(wpm, tokenCount, (now - startedAt)/1000) when startedAt is set
\* (nothing otherwise): that tick emits no positionChanged; any other tick does
\* not end the run.
C7_EndOfRun ==
  [][ TickStep =>
        IF wordIndex + Step(settings) >= Len(words)
        THEN /\ lastCmd' = "tickEnd"
             /\ ~isPlaying'
             /\ timers' = {}
             /\ wordIndex' = wordIndex
             /\ emitted' = IF startTime # NoTime
                           THEN <<SessionEnded(settings.wpm, Len(words),
                                               now - startTime)>>
                           ELSE <<>>
        ELSE lastCmd' = "tick" /\ isPlaying' ]_vars

\* the long text was finished by a run that cannot have read all of it within the
\* time followed, and a chunk run ended before the last index: wordsRead is the
\* token count in both
C7_Witness ==
  /\ lastCmd = "tickEnd"
  /\ Len(words) = LongTokens
  /\ wordIndex < Len(words) - 1
  /\ emitted = <<SessionEnded(settings.wpm, Len(words), now - startTime)>>

\* C8 (as stated): Finished is terminal: once a tick has ended a play run no
\* later command leads back to Playing or schedules a tick.
C8_AsStated ==
  [][ runEnds >= 1 => (~Playing' /\ timers' = {}) ]_vars

\* C8 (amended): once a tick has ended a play run, the controller is not playing
\* and no tick is pending until the next play command: no seek, reset, settings
\* change, enterContext or exitContext schedules a tick or leads back to Playing.
C8_FinishedUntilPlay ==
  runEnds >= 1 => (~isPlaying /\ timers = {})

\* after the end of a run a seek has moved the position back
C8_Witness ==
  /\ runEnds = 1
  /\ lastCmd = "seek"
  /\ emitted # <<>>
  /\ wordIndex < Len(words) - 1

\* C9: the positionChanged a tick emits has an index above the position reported
\* before it, a tick that emits sessionEnded emits no positionChanged, and no
\* tick follows the sessionEnded of its run.
C9_EventOrder ==
  [][ TickStep =>
        /\ runEnds = 0
        /\ \A i \in 1..Len(emitted') :
             IsPositionChanged(emitted'[i]) =>
               /\ emitted'[i][2] > wordIndex
               /\ emitted'[i][2] = wordIndex'
               /\ SessionEnds(emitted') = 0 ]_vars

\* a tick has reported a position further on
C9_Witness ==
  /\ lastCmd = "tick"
  /\ emitted = <<PositionChanged(wordIndex)>>
  /\ wordIndex >= 2
  /\ Playing

\* C10 (as stated): exitContext re-enters Playing and reschedules one tick
\* whenever the controller was Playing before the matching enterContext.
C10_AsStated ==
  (lastCmd = "exitContext" /\ ctxFrom = "playing") =>
    (Playing /\ Cardinality(timers) = 1)

\* C10 (amended): resume (a play command outside the context view, at a position
\* of the text) re-enters Playing and schedules one tick with the delay of the
\* current token; exitContext does not: entering the context view clears the
\* playing flag, so after an enterContext from Playing and the matching
\* exitContext the controller is Paused and no tick is pending.
C10_ResumeNotExit ==
  /\ (lastCmd = "play" /\ ~showContext /\ wordIndex < Len(words)) =>
        /\ isPlaying
        /\ Cardinality(timers) = 1
        /\ \A t \in timers : t.delay = getDelay(Cur, words)
  /\ (lastCmd = "exitContext" /\ ctxFrom = "playing") =>
        (Paused /\ timers = {})

\* the stage was entered while Playing and has been left again
C10_Witness ==
  /\ lastCmd = "exitContext"
  /\ ctxFrom = "playing"
  /\ ~showContext
  /\ now > StartClock

\* C11: a play command that resumes playback schedules the tick a full delay of
\* the current token after the moment of the resume: the one pending timer is set
\* at that moment with getDelay of the current token, whatever time the timer
\* cancelled by the pause had already run.
C11_ResumeFullDelay ==
  [][ (lastCmd' = "play" /\ now' = now /\ Playing') =>
        /\ Cardinality(timers') = 1
        /\ \A t \in timers' :
             /\ t.setAt = now
             /\ t.delay = getDelay(Cur', words)
             /\ Due(t) = now + getDelay(Cur', words) ]_vars

\* playback was resumed after a pause that cancelled a timer part of the way
C11_Witness ==
  /\ lastCmd = "play"
  /\ pausedMid
  /\ Playing
  /\ \E t \in timers : t.setAt = now /\ t.setAt > startTime

\* the seek target index clamped to [0, tokenCount-1] (the lower bound last)
Clamped(target) == Max(0, Min(Len(words) - 1, target))

\* the position a seek handler is asked for and the position it sets
SeeksClamped ==
  /\ (KeyArrowLeft => wordIndex' = Clamped(wordIndex - 10))
  /\ (KeyArrowRight => wordIndex' = Clamped(wordIndex + 10))
  /\ (Rewind => wordIndex' = Clamped(wordIndex - 50))
  /\ (FastForward => wordIndex' = Clamped(wordIndex + 50))
  /\ (Slider => wordIndex' \in 0..(Len(words) - 1))

\* C12: a seek sets the position to its target clamped to [0, tokenCount-1],
\* leaves the play state as it was (Playing stays Playing, anything else stays
\* not Playing), leaves a timer pending only if the state was Playing, and the
\* event it emits for the moved position is positionChanged(new position).
C12_AsStated ==
  [][ (lastCmd' = "seek" /\ now' = now) =>
        /\ SeeksClamped
        /\ isPlaying' = isPlaying
        /\ showContext' = showContext
        /\ Playing' = Playing
        /\ (timers' # {} => Playing)
        /\ emitted' = IF wordIndex' # wordIndex
                      THEN <<PositionChanged(wordIndex')>>
                      ELSE <<>> ]_vars

\* the token a pending timer was set for
TimedToken(t) == WordAt(words, t.at)

\* the factor of the base delay: chunkSize in chunk mode, 1 in every other mode
BaseFactor == IF settings.mode = "rsvp-chunk" THEN settings.chunkSize ELSE 1

\* C13: the delay of a token is (60000 / wpm) * (chunkSize in chunk mode, else 1)
\* * m with one multiplier m, the first that applies of: 2.0 for a token ending
\* in . ! or ?, 1.5 for one ending in , ; or :, 1.2 for a length above 10, else
\* 1.0; at wpm 600 outside chunk mode "hello" gets 100 ms, "hello." 200 ms and
\* "extraordinary" 120 ms, and a long token that ends a sentence or a clause gets
\* 200 ms or 150 ms (the multipliers are not combined).
C13_DelayFormula ==
  \A t \in timers :
    LET w == TimedToken(t)
        last == IF Len(w) > 0 THEN w[Len(w)] ELSE ""
        m10 == CASE last \in {".", "!", "?"} -> 20
                 [] last \in {",", ";", ":"} -> 15
                 [] last \notin {".", "!", "?", ",", ";", ":"} /\ Len(w) > 10 -> 12
                 [] OTHER -> 10
    IN /\ t.delay * settings.wpm * 10 = 60000 * BaseFactor * m10
       /\ (settings.wpm = 600 /\ BaseFactor = 1) =>
            /\ (w = <<"h", "e", "l", "l", "o">> => t.delay = 100)
            /\ (w = <<"h", "e", "l", "l", "o", ".">> => t.delay = 200)
            /\ (w = <<"h", "e", "l", "l", "o", ",">> => t.delay = 150)
            /\ (Len(w) = 13 => t.delay = 120)
            /\ (Len(w) = 14 /\ last = "." => t.delay = 200)
            /\ (Len(w) = 14 /\ last = "," => t.delay = 150)

\* a timer is pending for a long token that ends a sentence, in chunk mode
C13_Witness ==
  /\ settings.mode = "rsvp-chunk"
  /\ settings.chunkSize >= 2
  /\ \E t \in timers :
       /\ Len(TimedToken(t)) > 10
       /\ EndsWith(TimedToken(t), {"."})
       /\ t.delay = 2 * settings.chunkSize * (60000 \div settings.wpm)

\* C14: startTime is set, to the current time, only by a handler that starts
\* playback while it is unset; once set it never changes, whatever the command
\* (pause, resume, seek, context toggle, the end of a run, reset and replay); so
\* the duration of every sessionEnded is the time since the first start.
C14_StartOnce ==
  [][ /\ (startTime # NoTime => startTime' = startTime)
      /\ ((startTime = NoTime /\ startTime' # NoTime) =>
            (startTime' = now /\ Playing'))
      /\ (TickStep =>
            \A i \in 1..Len(emitted') :
              IsSessionEnded(emitted'[i]) =>
                /\ startTime = StartClock
                /\ emitted'[i][4] = Seconds(now - StartClock)) ]_vars

\* playback was started again some time after the first start
C14_Witness ==
  /\ lastCmd = "play"
  /\ Playing
  /\ startTime # NoTime
  /\ startTime < now
  /\ \A t \in timers : t.startTime = startTime /\ t.setAt = now

C16_EmptyNoOp ==
  Len(words) = 0 =>
    /\ wordIndex = 0
    /\ ~Playing
    /\ timers = {}
    /\ SessionEnds(emitted) = 0

----------------------------------------------------------------------------
(* Properties of the retention scheduler *)

\* a step of handleReview, and the call it records
GradeStep == graded' # graded /\ graded' # <<>>

\* the entries of the vocabulary with the id of the graded word
GradedEntries(v, g) == {i \in 1..Len(v) : v[i].id = g.id}

C19_NextReviewIncreases ==
  [][ GradeStep =>
        \A i \in GradedEntries(vocab, graded'[1]) :
          /\ vocab'[i].nextReview > vocab[i].nextReview
          /\ vocab'[i].nextReview > now ]_vars

\* a word graded before was graded again, some time after it fell due
C19_Witness ==
  /\ graded # <<>>
  /\ graded[1].before.nextReview > graded[1].before.date
  /\ graded[1].at > graded[1].before.nextReview
  /\ graded[1].updates.nextReview > graded[1].before.nextReview

DueEntries(t) == {vocab[i] : i \in {k \in 1..Len(vocab) : vocab[k].nextReview <= t}}

\* the vocabulary screen is on display
VocabShown == view = "vocab" /\ ~crashed

\* C21: at any time now, the due queue of the vocabulary screen holds exactly the
\* entries of the vocabulary with nextReview <= now, the most recently created
\* first
C21_DueQueueNow ==
  VocabShown =>
    /\ {reviewQueue[j] : j \in 1..Len(reviewQueue)} = DueEntries(now)
    /\ Len(reviewQueue) = Cardinality(DueEntries(now))
    /\ \A j, k \in 1..Len(reviewQueue) :
         j < k => reviewQueue[j].date >= reviewQueue[k].date

\* a step of saveToVocab
SaveStep == Len(vocab') = Len(vocab) + 1

\* C22: a save creates an entry with proficiency 0 and nextReview = the time of the
\* save, which is due at once: the queue computed right after the save holds it,
\* and the vocabulary screen lists every entry that was never graded
C22_NewEntryDue ==
  /\ [][SaveStep =>
          /\ vocab'[1].proficiency = 0
          /\ vocab'[1].nextReview = now
          /\ vocab'[1].date = now
          /\ \A i \in 1..Len(vocab) : vocab'[i + 1] = vocab[i]
          /\ \E j \in 1..Len(reviewQueueAt(vocab', now')) :
               reviewQueueAt(vocab', now')[j] = vocab'[1]]_vars
  /\ [](VocabShown =>
          \A i \in 1..Len(vocab) :
            vocab[i].nextReview = vocab[i].date =>
              \E j \in 1..Len(reviewQueue) : reviewQueue[j] = vocab[i])

\* the vocabulary screen is opened in the millisecond of a save, the new entry is
\* at the head of the queue
C22_Witness ==
  /\ VocabShown
  /\ Len(reviewQueue) > 0
  /\ reviewQueue[1].nextReview = now
  /\ reviewQueue[1].proficiency = 0
  /\ reviewQueue[1] = vocab[1]

\* C26: whenever review mode shows a card, the current card index is smaller than
\* the length of the current due queue
C26_CardExists ==
  (view = "vocab" /\ reviewMode /\ Len(reviewQueue) > 0) =>
    currentCardIndex < Len(reviewQueue)

\* the ids in a sequence of ids
Ids(seq) == {seq[i] : i \in 1..Len(seq)}

\* C27: when review mode ends after a grade, each card of the queue the session
\* started with has been graded exactly once
C27_EachCardOnce ==
  [][(GradeStep /\ (~reviewMode' \/ crashed')) =>
       /\ Ids(sessionGraded') = Ids(sessionQueue')
       /\ Len(sessionGraded') = Len(sessionQueue')]_vars

\* C28: a grade changes the proficiency and nextReview of the entries with the
\* graded id and nothing else: their id and date, every other entry, and the
\* text, the position and the events of the reader stay as they are
C28_GradeFrame ==
  [][GradeStep =>
       /\ Len(vocab') = Len(vocab)
       /\ \A i \in 1..Len(vocab) :
            IF vocab[i].id = graded'[1].id
            THEN vocab'[i] = [vocab[i] EXCEPT
                                !.proficiency = vocab'[i].proficiency,
                                !.nextReview = vocab'[i].nextReview]
            ELSE vocab'[i] = vocab[i]
       /\ UNCHANGED <<text, words, wordIndex, emitted>>]_vars

\* a card was graded while the vocabulary held another entry
C28_Witness ==
  /\ graded # <<>>
  /\ Len(vocab) = 2
  /\ \E i \in 1..Len(vocab) : vocab[i].id # graded[1].id
  /\ \E i \in 1..Len(vocab) :
       vocab[i].id = graded[1].id /\ vocab[i].nextReview > vocab[i].date

\* the token at the position
Token == WordAt(words, wordIndex)

\* w[a:b], the characters of w from index a (from 0) up to b, b not included
Slice(w, a, b) ==
  LET lo == Min(a, Len(w))
      hi == Min(b, Len(w))
  IN [k \in 1..(hi - lo) |-> w[lo + k]]

\* C23: orp(len) is 0 for len <= 1, 1 for len <= 5, 2 for len <= 9, 3 for
\* len <= 13 and 4 otherwise (0, 1, 2, 3, 4 for len 1, 5, 9, 13, 14); the token
\* shown in single-word mode is split into left = token[0:orp], center =
\* token[orp:orp+1], right = token[orp+1:], which concatenate to the token, with
\* a center of one character unless the token is empty, when all parts are empty
C23_FocalSplit ==
  settings.mode = "rsvp-single" =>
    LET len == Len(Token)
        orp == getORPIndex(len)
        parts == renderSingleWord(Token)
    IN /\ orp = (CASE len <= 1 -> 0
                   [] len \in 2..5 -> 1
                   [] len \in 6..9 -> 2
                   [] len \in 10..13 -> 3
                   [] OTHER -> 4)
       /\ <<getORPIndex(1), getORPIndex(5), getORPIndex(9), getORPIndex(13),
            getORPIndex(14)>> = <<0, 1, 2, 3, 4>>
       /\ parts.left = Slice(Token, 0, orp)
       /\ parts.center = Slice(Token, orp, orp + 1)
       /\ parts.right = Slice(Token, orp + 1, len)
       /\ parts.left \o parts.center \o parts.right = Token
       /\ (len > 0 => Len(parts.center) = 1)
       /\ (len = 0 => parts.left = <<>> /\ parts.center = <<>> /\ parts.right = <<>>)

\* a token at a threshold of the table is on the stage after a tick
C23_Witness ==
  /\ settings.mode = "rsvp-single"
  /\ lastCmd = "tick"
  /\ Len(Token) \in {5, 9, 13, 14}

\* the positions of the word characters of a token
WordPositions(w) == {k \in 1..Len(w) : w[k] \in WordChars}

\* the least b >= 1 with b >= len * ratio
BoldLength(len, ratio) ==
  CHOOSE b \in 1..Max(1, len) :
    /\ b * ratio.den >= len * ratio.num
    /\ \A a \in 1..(b - 1) : a * ratio.den < len * ratio.num

\* C24: each token of the chunk on display that has a core (the part from its
\* first to its last word character) is shown as prefix + bold + light + suffix
\* with bold = core[0:max(1, ceil(|core| * boldRatio))]; the parts concatenate to
\* the token and 1 <= |bold| <= |core|.  A token without a core is shown as it
\* is, as one unit without emphasis.  ("testing", 1/2) gives "test" + "ing".
C24_Emphasis ==
  settings.mode = "rsvp-chunk" =>
    /\ \A i \in ChunkShown(words, wordIndex, settings.chunkSize) :
         LET w == words[i + 1]
             out == processBionicText(w, boldRatio)
             at == WordPositions(w)
         IN /\ Len(out) = 1
            /\ IF at = {}
               THEN out[1].kind = "plain" /\ out[1].prefix = w
                    /\ out[1].bold = <<>> /\ out[1].light = <<>>
                    /\ out[1].suffix = <<>>
               ELSE LET first == CHOOSE k \in at : \A j \in at : k <= j
                        last == CHOOSE k \in at : \A j \in at : k >= j
                        core == SubSeq(w, first, last)
                        n == BoldLength(Len(core), boldRatio)
                    IN /\ out[1].kind = "bionic"
                       /\ out[1].prefix = SubSeq(w, 1, first - 1)
                       /\ out[1].bold = SubSeq(core, 1, n)
                       /\ out[1].light = SubSeq(core, n + 1, Len(core))
                       /\ out[1].suffix = SubSeq(w, last + 1, Len(w))
                       /\ out[1].prefix \o out[1].bold \o out[1].light
                            \o out[1].suffix = w
                       /\ Len(out[1].bold) >= 1
                       /\ Len(out[1].bold) <= Len(core)
    /\ LET t == processBionicText(<<"t", "e", "s", "t", "i", "n", "g">>,
                                  [num |-> 1, den |-> 2])
       IN t[1].bold = <<"t", "e", "s", "t">> /\ t[1].light = <<"i", "n", "g">>

\* after a tick the chunk on display holds a token with punctuation around its
\* core and a token without a core, at a boldRatio below one
C24_Witness ==
  /\ settings.mode = "rsvp-chunk"
  /\ lastCmd = "tick"
  /\ boldRatio.num \in 1..3
  /\ \E i, j \in ChunkShown(words, wordIndex, settings.chunkSize) :
       /\ WordPositions(words[i + 1]) = {}
       /\ WordPositions(words[j + 1]) # {}
       /\ Len(words[j + 1]) > Cardinality(WordPositions(words[j + 1]))

\* the characters of the tokens, in order
RECURSIVE Flatten(_)
Flatten(ws) == IF ws = <<>> THEN <<>> ELSE Head(ws) \o Flatten(Tail(ws))

\* the positions of a text where a run of characters other than whitespace starts
RunStarts(str) ==
  {i \in 1..Len(str) :
     str[i] \notin Whitespace /\ (i = 1 \/ str[i - 1] \in Whitespace)}

\* C25: the tokens of the reader are a function of its text, split on runs of
\* whitespace: no token is empty or holds whitespace, the tokens are the runs of
\* other characters in the order of the text, and an empty or blank text has no
\* tokens
C25_Tokens ==
  view = "reader" =>
    /\ words = Tokenize(text)
    /\ \A i \in 1..Len(words) :
         /\ words[i] # <<>>
         /\ \A k \in 1..Len(words[i]) : words[i][k] \notin Whitespace
    /\ Flatten(words) = SelectSeq(text, LAMBDA ch : ch \notin Whitespace)
    /\ Len(words) = Cardinality(RunStarts(text))
    /\ (IsBlank(text) => words = <<>>)

\* the reader shows a text that starts with whitespace and has two tokens with a
\* line break between them
C25_Witness ==
  /\ view = "reader"
  /\ Len(text) = MaxTextLen
  /\ text[1] \in Whitespace
  /\ Len(words) = 2
  /\ \E i \in 2..(Len(text) - 1) : text[i] = "\n"

\* C29: in a chunk run from position 0 the positions on display are 0, c, 2c, ...
\* in turn: the position is a multiple of c, every token before the position was in the chunk of an earlier
\* position, every tick moves to the chunk that follows or ends the run with the
\* rest of the text on display, and when the run has ended every token of the
\* text has been in a chunk on display
C29_NoTokenSkipped ==
  /\ [](wordIndex % settings.chunkSize = 0)
  /\ [](\A i \in 0..(Len(words) - 1) :
          i < wordIndex =>
            \E k \in 0..(wordIndex \div settings.chunkSize) :
              /\ k * settings.chunkSize < wordIndex
              /\ i \in ChunkShown(words, k * settings.chunkSize,
                                  settings.chunkSize))
  /\ [][TickStep =>
          \/ wordIndex' = wordIndex + settings.chunkSize
          \/ /\ lastCmd' = "tickEnd"
             /\ wordIndex' = wordIndex
             /\ \A i \in wordIndex..(Len(words) - 1) :
                  i \in ChunkShown(words, wordIndex, settings.chunkSize)]_vars
  /\ [](lastCmd = "tickEnd" =>
          \A i \in 0..(Len(words) - 1) :
            \E k \in 0..(wordIndex \div settings.chunkSize) :
              i \in ChunkShown(words, k * settings.chunkSize, settings.chunkSize))

\* a run with chunks of two has ended on a text with an odd number of tokens
C29_Witness ==
  /\ lastCmd = "tickEnd"
  /\ settings.chunkSize = 2
  /\ Len(words) % 2 = 1
  /\ Len(words) >= 3
  /\ wordIndex = Len(words) - 1

\* C30: on a text with tokens, a run that was started and is left alone stops:
\* playback ends in the timer callback, which emits sessionEnded
C30_RunStops ==
  (isPlaying /\ Len(words) > 0) ~>
    (~isPlaying /\ lastCmd = "tickEnd" /\ SessionEnds(emitted) = 1)

\* a run over the longest text, started at position 0, has stopped
C30_Witness ==
  /\ ~isPlaying
  /\ lastCmd = "tickEnd"
  /\ Len(words) = RunTokens
  /\ nTicks >= RunTokens \div MaxChunk
  /\ SessionEnds(emitted) = 1

====
